---- MODULE Spec2Model ----
(***************************************************************************)
(* Matchup derivation and favorability scoring of the daily lineup         *)
(* scripts (run.py, update.py).                                            *)
(*                                                                         *)
(*   SpecBuild : the matchup-building loop over df_pitching / df_batter    *)
(*   SpecRank  : scoring of the enriched rows and the two top-50 subsets   *)
(*   SpecScore : weighted_color_value / logarithmic_increase as functions  *)
(*   SpecWeight: the scorer at two PA values, and the weight itself        *)
(*   SpecColor : both scripts' score formulas and determine_color          *)
(*   SpecParse : the loop over the lineup list items                       *)
(*   SpecEnrich: the parallel stat fetch, then scoring and ranking         *)
(*   SpecGames : the builder followed by the choice of the game charts     *)
(*                                                                         *)
(* Numbers: OPS is held in thousandths (0.75 is 750) and a weight in       *)
(* ten-thousandths (20 is 200000), so a score is an integer number of      *)
(* 10^-7 units and every product and sum of the source is exact.           *)
(***************************************************************************)
EXTENDS Integers, Sequences, FiniteSets

VARIABLES
    pc,             \* position of the script
    df_pitching,    \* pitcher rows, in page order
    df_batter,      \* batter rows, in page order
    pitcher_index,  \* loop index of the matchup loop (0-based, as in the source)
    matchups,       \* records accumulated by the loop
    csv,            \* the matchup csv files written: NoFile, or <<content>>
    err,            \* the exception that ended the run, "none" otherwise
    rows,           \* enriched rows (PA, OPS) of df_final, in builder order
    color_value,    \* score column of df_subset
    top_50_fav,     \* row labels of the favorable subset, in display order
    top_50_unfav,   \* row labels of the unfavorable subset, in display order
    pa,             \* the PA argument of the scorer
    ops,            \* two OPS arguments <<ops1, ops2>> of the scorer
    score,          \* the scores returned for them, <<>> before the calls
    pa2,            \* a second PA argument
    weight,         \* <<logarithmic_increase(pa), logarithmic_increase(pa2)>>
    value,          \* an argument of determine_color
    color,          \* the colours returned by determine_color
    items,          \* the li elements selected from the page, in page order
    item_index,     \* number of li elements the parse loop has processed
    team_type,      \* last class of the list the previous item belongs to
    order_count,    \* next batting order; Unbound before its first assignment
    workers,        \* size of the executor's pool
    task,           \* per matchup record: state of its scrape_player_stats call
    finished,       \* record labels in the order their calls returned
    results,        \* list(executor.map(...)), <<>> before it is complete
    game_pairs      \* the (team1, team2) pairs that get a game chart

vars == <<pc, df_pitching, df_batter, pitcher_index, matchups, csv, err,
          rows, color_value, top_50_fav, top_50_unfav, pa, ops, score,
          pa2, weight, value, color, items, item_index, team_type, order_count,
          workers, task, finished, results, game_pairs>>

buildVars == <<df_pitching, df_batter, pitcher_index, matchups, csv, err>>
rankVars  == <<rows, color_value, top_50_fav, top_50_unfav>>
scoreVars == <<pa, ops, score>>
fnVars     == <<pa2, weight, value, color>>
parseVars  == <<items, item_index, team_type, order_count>>
enrichVars == <<workers, task, finished, results>>
gameVars   == <<game_pairs>>
extVars    == <<pa2, weight, value, color, items, item_index, team_type,
               order_count, workers, task, finished, results, game_pairs>>

\* order_count before the loop has assigned it; <<n>> once it holds n
Unbound == <<>>

\* the parts of the state a specification does not use
FnIdle == pa2 = 0 /\ weight = <<>> /\ value = 0 /\ color = <<>>
ParseIdle == items = <<>> /\ item_index = 0 /\ team_type = "" /\ order_count = Unbound
EnrichIdle == workers = 0 /\ task = <<>> /\ finished = <<>> /\ results = <<>>
GameIdle == game_pairs = <<>>
ExtIdle == FnIdle /\ ParseIdle /\ EnrichIdle /\ GameIdle

(***************************************************************************)
(* Bounds of the model                                                     *)
(***************************************************************************)
MaxPitchers == 4
MaxBatters == 3

Teams == {"NYY", "BOS", "TOR"}

NoFile == <<>>

\* all sequences over S of length 0..n
SeqsUpTo(S, n) == UNION {[1..k -> S] : k \in 0..n}

(***************************************************************************)
(* Matchup builder                                                         *)
(***************************************************************************)
\* a pitcher row: only the team decides the pairing; the row's position
\* stands for its name and throwing hand
PitcherRows == {[team |-> t] : t \in Teams}

\* batter rows: id is the row's position in df_batter (its name, position,
\* batting order and batting hand travel with it)
BatterFrames ==
    UNION {{[i \in 1..n |-> [id |-> i, team |-> f[i]]] : f \in [1..n -> Teams]}
           : n \in 0..MaxBatters}

\* df_pitching.iloc[i] for the 0-based i of the source
Iloc(i) == df_pitching[i + 1]

\* while pitcher_index < len(df_pitching)
LoopCondPaired == pitcher_index + 1 < Len(df_pitching)
LoopCond == pitcher_index < Len(df_pitching)

\* df_pitching.iloc[pitcher_index + 1] is inside the frame
OpponentInBounds == pitcher_index + 1 < Len(df_pitching)

\* pd.DataFrame([]) has no columns: df_batter['team'] exists only when at
\* least one batter was parsed
HasTeamColumn == Len(df_batter) > 0

\* df_batter[df_batter['team'] == team]
BattersOf(team) == SelectSeq(df_batter, LAMBDA b : b.team = team)

\* the records appended for one side: every batter of bs against pitcher row p
SideRecords(bs, p) ==
    [k \in 1..Len(bs) |->
        [batter       |-> bs[k].id,
         batter_team  |-> bs[k].team,
         pitcher      |-> p,
         pitcher_team |-> Iloc(p).team]]

\* the two for-loops of one iteration; cur, opp are 0-based row numbers
MatchupsForOwnPitcher(cur, opp) ==
    SideRecords(BattersOf(Iloc(cur).team), cur)
        \o SideRecords(BattersOf(Iloc(opp).team), opp)
MatchupsFor(cur, opp) ==
    SideRecords(BattersOf(Iloc(cur).team), opp)
        \o SideRecords(BattersOf(Iloc(opp).team), cur)

InitBuild ==
    /\ pc = "build"
    /\ df_pitching \in SeqsUpTo(PitcherRows, MaxPitchers)
    /\ df_batter \in BatterFrames
    /\ pitcher_index = 0
    /\ matchups = <<>>
    /\ csv = NoFile
    /\ err = "none"
    /\ rows = <<>> /\ color_value = <<>> /\ top_50_fav = <<>> /\ top_50_unfav = <<>>
    /\ pa = 0 /\ ops = <<>> /\ score = <<>>
    /\ ExtIdle

\* one full iteration of the while loop
BuildPair ==
    /\ pc = "build"
    /\ LoopCond
    /\ OpponentInBounds
    /\ HasTeamColumn
    /\ matchups' = matchups \o MatchupsFor(pitcher_index, pitcher_index + 1)
    /\ pitcher_index' = pitcher_index + 2
    /\ UNCHANGED <<pc, df_pitching, df_batter, csv, err>>
    /\ UNCHANGED rankVars /\ UNCHANGED scoreVars /\ UNCHANGED extVars

\* df_pitching.iloc[pitcher_index + 1] past the last row
RaiseIndexError ==
    /\ pc = "build"
    /\ LoopCond
    /\ ~OpponentInBounds
    /\ pc' = "failed"
    /\ err' = "IndexError"
    /\ UNCHANGED <<df_pitching, df_batter, pitcher_index, matchups, csv>>
    /\ UNCHANGED rankVars /\ UNCHANGED scoreVars /\ UNCHANGED extVars

\* df_batter['team'] on a frame without columns
RaiseKeyError ==
    /\ pc = "build"
    /\ LoopCond
    /\ OpponentInBounds
    /\ ~HasTeamColumn
    /\ pc' = "failed"
    /\ err' = "KeyError"
    /\ UNCHANGED <<df_pitching, df_batter, pitcher_index, matchups, csv>>
    /\ UNCHANGED rankVars /\ UNCHANGED scoreVars /\ UNCHANGED extVars

\* loop exit: df_final = pd.DataFrame(matchups); df_final.to_csv(...)
WriteCsv ==
    /\ pc = "build"
    /\ ~LoopCond
    /\ csv' = <<matchups>>
    /\ pc' = "built"
    /\ UNCHANGED <<df_pitching, df_batter, pitcher_index, matchups, err>>
    /\ UNCHANGED rankVars /\ UNCHANGED scoreVars /\ UNCHANGED extVars

NextBuild == BuildPair \/ RaiseIndexError \/ RaiseKeyError \/ WriteCsv

SpecBuild == InitBuild /\ [][NextBuild]_vars

(***************************************************************************)
(* Favorability scorer                                                     *)
(***************************************************************************)
Min(a, b) == IF a <= b THEN a ELSE b
Max(a, b) == IF a >= b THEN a ELSE b
Abs(a) == IF a >= 0 THEN a ELSE -a

\* default of logarithmic_increase's max_value
max_value == 20

\* the baseline OPS 0.75, the clip 0.5 of the deviation and the factor 0.5
\* of the shift, in thousandths
Baseline == 750
ClipDev == 500
HalfShift == 500

\* math.log(x + 1, 5) * 20 / math.log(21, 5) for x = 0..19, rounded to
\* ten-thousandths
LogBranch ==
    <<0, 45534, 72170, 91068, 105727, 117704, 127830, 136602, 144340, 151261,
      157522, 163238, 168496, 173364, 177897, 182136, 186119, 189874, 193425,
      196795>>

\* logarithmic_increase with the cap taken one PA early, and with the
\* logarithm normalised by log(max_value) instead of log(max_value + 1)
li_CapOffByOne(x) ==
    IF x < max_value - 1 THEN LogBranch[x + 1] ELSE max_value * 10000
li_NormalisedByCap(x) ==
    IF x < max_value THEN (LogBranch[x + 1] * 10163) \div 10000 ELSE max_value * 10000
logarithmic_increase(x) ==
    IF x < max_value THEN LogBranch[x + 1] ELSE max_value * 10000

\* the if/elif/else of weighted_color_value with one change each
wcv_NoZeroBranch(PA, OPS) ==
    LET log_val == logarithmic_increase(PA)
        deviation == OPS - Baseline
    IN  IF deviation >= 0
        THEN log_val * Min(deviation, ClipDev) + log_val * HalfShift
        ELSE log_val * Max(deviation, -ClipDev) - log_val * HalfShift
wcv_LowerShiftDropped(PA, OPS) ==
    LET log_val == logarithmic_increase(PA)
        deviation == OPS - Baseline
    IN  IF deviation > 0
        THEN log_val * Min(deviation, ClipDev) + log_val * HalfShift
        ELSE IF deviation < 0
        THEN log_val * Max(deviation, -ClipDev)
        ELSE 0
wcv_Unshifted(PA, OPS) ==
    LET log_val == logarithmic_increase(PA)
        deviation == OPS - Baseline
    IN  IF deviation > 0
        THEN log_val * Min(deviation, ClipDev)
        ELSE IF deviation < 0
        THEN log_val * Max(deviation, -ClipDev)
        ELSE 0
wcv_LowerShiftSign(PA, OPS) ==
    LET log_val == logarithmic_increase(PA)
        deviation == OPS - Baseline
    IN  IF deviation > 0
        THEN log_val * Min(deviation, ClipDev) + log_val * HalfShift
        ELSE IF deviation < 0
        THEN log_val * Max(deviation, -ClipDev) + log_val * HalfShift
        ELSE 0
wcv_Unclipped(PA, OPS) ==
    LET log_val == logarithmic_increase(PA)
        deviation == OPS - Baseline
    IN  IF deviation > 0
        THEN log_val * deviation + log_val * HalfShift
        ELSE IF deviation < 0
        THEN log_val * deviation - log_val * HalfShift
        ELSE 0
weighted_color_value(PA, OPS) ==
    LET log_val == logarithmic_increase(PA)
        deviation == OPS - Baseline
    IN  IF deviation > 0
        THEN log_val * Min(deviation, ClipDev) + log_val * HalfShift
        ELSE IF deviation < 0
        THEN log_val * Max(deviation, -ClipDev) - log_val * HalfShift
        ELSE 0

(***************************************************************************)
(* The scorer as a function: one PA, two OPS values                        *)
(***************************************************************************)
MaxPA == 22
OpsStep == 125
MaxDevSteps == 6

Signs == {-1, 1}

\* OPS values: a coarse grid around the baseline, and the baseline and the
\* two clip points each with their neighbours one thousandth away
OpsGrid ==
    {o \in {Baseline + s * k * OpsStep : s \in Signs, k \in 0..MaxDevSteps}
           \cup {Baseline + s * (c + e) : s \in Signs, c \in {0, ClipDev}, e \in {-1, 0, 1}}
       : o >= 0}

InitScore ==
    /\ pc = "call"
    /\ pa \in 0..MaxPA
    /\ ops \in OpsGrid \X OpsGrid
    /\ score = <<>>
    /\ df_pitching = <<>> /\ df_batter = <<>> /\ pitcher_index = 0
    /\ matchups = <<>> /\ csv = NoFile /\ err = "none"
    /\ rows = <<>> /\ color_value = <<>> /\ top_50_fav = <<>> /\ top_50_unfav = <<>>
    /\ ExtIdle

\* weighted_color_value(pa, ops1) and weighted_color_value(pa, ops2)
CallScore ==
    /\ pc = "call"
    /\ score' = <<weighted_color_value(pa, ops[1]), weighted_color_value(pa, ops[2])>>
    /\ pc' = "returned"
    /\ UNCHANGED <<pa, ops>>
    /\ UNCHANGED buildVars /\ UNCHANGED rankVars /\ UNCHANGED extVars

NextScore == CallScore

SpecScore == InitScore /\ [][NextScore]_vars

(***************************************************************************)
(* Scoring of the enriched rows and the two ranked subsets                 *)
(***************************************************************************)
\* head(50)
TopN == 50

MaxRows == 52
PatLen == 3

\* (PA, OPS) of an enriched row: a saturated and a small sample above the
\* baseline, a failed fetch (all stats 0.0), a small and a saturated sample
\* below the baseline
Cells ==
    {[PA |-> 20, OPS |-> 1000], [PA |-> 5, OPS |-> 1000], [PA |-> 0, OPS |-> 0],
     [PA |-> 5, OPS |-> 500], [PA |-> 20, OPS |-> 500]}

\* the rows of df_final: a pattern of PatLen cells repeated over n rows
Expand(p, n) == [i \in 1..n |-> p[((i - 1) % PatLen) + 1]]
RowFrames == {Expand(p, n) : p \in [1..PatLen -> Cells], n \in 0..MaxRows}

\* sort_values is called with the default kind, quicksort, which fixes no
\* order among rows of equal key: the orders a build may produce are
\* represented by input order and by reverse input order
TieOrders == {"stable", "reversed"}

\* row label x is placed before row label y
Before(x, y, ascending, tie) ==
    \/ (ascending /\ color_value[x] < color_value[y])
    \/ (~ascending /\ color_value[x] > color_value[y])
    \/ (color_value[x] = color_value[y] /\
            IF tie = "stable" THEN x < y ELSE x > y)

RECURSIVE SortFrom(_, _, _, _, _)
SortFrom(labels, k, acc, ascending, tie) ==
    IF k > Len(labels) THEN acc
    ELSE LET x == labels[k]
             n == Cardinality({j \in 1..Len(acc) : Before(acc[j], x, ascending, tie)})
         IN  SortFrom(labels, k + 1,
                      SubSeq(acc, 1, n) \o <<x>> \o SubSeq(acc, n + 1, Len(acc)),
                      ascending, tie)

\* df.sort_values('color_value', ascending=...) over the rows labelled labels
SortValues(labels, ascending, tie) == SortFrom(labels, 1, <<>>, ascending, tie)

\* df.head(n)
HeadRows(frame) == SubSeq(frame, 1, Min(TopN, Len(frame)))

AllLabels == [i \in 1..Len(rows) |-> i]

\* df_subset[df_subset['color_value'] > 0] and [... < 0], as row labels
FavorableRowsWithZero == SelectSeq(AllLabels, LAMBDA i : color_value[i] >= 0)
FavorableRows == SelectSeq(AllLabels, LAMBDA i : color_value[i] > 0)
UnfavorableRows == SelectSeq(AllLabels, LAMBDA i : color_value[i] < 0)

InitRank ==
    /\ pc = "enriched"
    /\ rows \in RowFrames
    /\ color_value = <<>>
    /\ top_50_fav = <<>>
    /\ top_50_unfav = <<>>
    /\ df_pitching = <<>> /\ df_batter = <<>> /\ pitcher_index = 0
    /\ matchups = <<>> /\ csv = NoFile /\ err = "none"
    /\ pa = 0 /\ ops = <<>> /\ score = <<>>
    /\ ExtIdle

\* df_subset['color_value'] = df_subset.apply(weighted_color_value(PA, OPS))
ScoreRows ==
    /\ pc = "enriched"
    /\ color_value' = [i \in 1..Len(rows) |-> weighted_color_value(rows[i].PA, rows[i].OPS)]
    /\ pc' = "scored"
    /\ UNCHANGED <<rows, top_50_fav, top_50_unfav>>
    /\ UNCHANGED buildVars /\ UNCHANGED scoreVars /\ UNCHANGED extVars

\* top_50_fav = ...sort_values(ascending=False).head(50)
\* top_50_unfav = ...sort_values(ascending=True).head(50)
RankRows ==
    /\ pc = "scored"
    /\ \E tf, tu \in TieOrders :
          /\ top_50_fav' = HeadRows(SortValues(FavorableRows, FALSE, tf))
          /\ top_50_unfav' = HeadRows(SortValues(UnfavorableRows, TRUE, tu))
    /\ pc' = "ranked"
    /\ UNCHANGED <<rows, color_value>>
    /\ UNCHANGED buildVars /\ UNCHANGED scoreVars /\ UNCHANGED extVars

NextRank == ScoreRows \/ RankRows

SpecRank == InitRank /\ [][NextRank]_vars

(***************************************************************************)
(* Properties of the matchup builder                                       *)
(***************************************************************************)
EvenPitchers == Len(df_pitching) % 2 = 0

\* the 1-based positions of the first pitcher of each complete adjacent pair
PairStarts == {i \in 1..Len(df_pitching) : i % 2 = 1 /\ i + 1 <= Len(df_pitching)}

\* the two pitchers of every adjacent pair belong to different teams
PairsDistinct == \A i \in PairStarts : df_pitching[i].team # df_pitching[i + 1].team

\* every batter's team has a pitcher in some pair
BattersHavePitcher ==
    \A b \in 1..Len(df_batter) :
        \E i \in 1..Len(df_pitching) : df_pitching[i].team = df_batter[b].team

\* the other pitcher (0-based row) of the adjacent pair holding 0-based row p
Partner(p) == IF p % 2 = 0 THEN p + 1 ELSE p - 1

RecordsOfBatter(b) == {k \in 1..Len(matchups) : matchups[k].batter = b}

\* C1 as stated: for every input whose pitcher list has even length, every
\* emitted matchup record has pitcher_team different from batter_team.
C1_AsStated ==
    EvenPitchers =>
        \A k \in 1..Len(matchups) : matchups[k].pitcher_team # matchups[k].batter_team

\* C1 (amended): for every input whose pitcher list has even length and whose
\* adjacent pitcher pairs each hold two different teams, every emitted matchup
\* record has pitcher_team different from batter_team.
C1_OpposingTeams ==
    (EvenPitchers /\ PairsDistinct) =>
        \A k \in 1..Len(matchups) : matchups[k].pitcher_team # matchups[k].batter_team

\* a finished build over two pairs of distinct teams that emitted records for
\* both sides of a pair
C1_Witness ==
    /\ pc = "built"
    /\ Len(df_pitching) = 4
    /\ PairsDistinct
    /\ \E j, k \in 1..Len(matchups) :
          matchups[j].batter_team = matchups[k].pitcher_team
          /\ matchups[k].batter_team = matchups[j].pitcher_team

\* C2: for every input whose pitcher list has even length (here also: every
\* pair holds two different teams and every batter's team has a pitcher), a
\* finished build holds exactly one record per batter, and that record's
\* pitcher is the other pitcher of the pair of the batter's own team's pitcher.
C2_OneRecordPerBatter ==
    (pc = "built" /\ EvenPitchers /\ PairsDistinct /\ BattersHavePitcher) =>
        \A b \in 1..Len(df_batter) :
            /\ Cardinality(RecordsOfBatter(b)) = 1
            /\ \A k \in RecordsOfBatter(b) :
                  Iloc(Partner(matchups[k].pitcher)).team = df_batter[b].team

C4_EmptySideNoError ==
    (EvenPitchers /\ PairsDistinct) =>
        /\ pc # "failed"
        /\ (pc = "built" =>
              \A i \in PairStarts :
                 /\ \A b \in 1..Len(df_batter) :
                       df_batter[b].team = df_pitching[i].team =>
                          \E k \in 1..Len(matchups) :
                             matchups[k].batter = b /\ matchups[k].pitcher = i
                 /\ \A b \in 1..Len(df_batter) :
                       df_batter[b].team = df_pitching[i + 1].team =>
                          \E k \in 1..Len(matchups) :
                             matchups[k].batter = b /\ matchups[k].pitcher = i - 1)

(***************************************************************************)
(* Properties of the scorer                                                *)
(***************************************************************************)
Returned == pc = "returned"

Sign(a) == IF a > 0 THEN 1 ELSE IF a < 0 THEN -1 ELSE 0

C8_ZeroCases ==
    Returned =>
        \A k \in 1..2 :
            /\ (ops[k] = Baseline => score[k] = 0)
            /\ (pa = 0 => score[k] = 0)
            /\ (pa > 0 /\ ops[k] # Baseline =>
                    score[k] # 0 /\ Sign(score[k]) = Sign(ops[k] - Baseline))

\* one call at the baseline with a positive weight and one away from it
C8_Witness ==
    /\ Returned
    /\ pa = 7
    /\ ops[1] = Baseline /\ score[1] = 0
    /\ ops[2] < Baseline /\ score[2] < 0

\* C9 as stated: for PA > 0 the score has no jump at OPS = 0.75: like
\* everywhere else on either side, it moves away from score(PA, 0.75) by at
\* most weight(PA) per unit of OPS.
C9_AsStated ==
    (Returned /\ pa > 0 /\ ops[1] = Baseline) =>
        Abs(score[2] - score[1]) <= logarithmic_increase(pa) * Abs(ops[2] - ops[1])

\* C9 (amended): for PA > 0 the score is 0 at OPS = 0.75 and jumps there by
\* half the weight: for OPS above 0.75 it lies between weight/2 and
\* weight/2 + weight * (OPS - 0.75), for OPS below 0.75 between
\* -weight/2 - weight * (0.75 - OPS) and -weight/2, so it tends to
\* +weight/2 and -weight/2, not to 0, as OPS approaches 0.75.
C9_JumpAtBaseline ==
    (Returned /\ pa > 0) =>
        \A k \in 1..2 :
            LET w == logarithmic_increase(pa)
                d == ops[k] - Baseline
            IN  /\ (d = 0 => score[k] = 0)
                /\ (d > 0 => /\ score[k] > w * HalfShift
                             /\ score[k] <= w * HalfShift + w * d)
                /\ (d < 0 => /\ score[k] < -(w * HalfShift)
                             /\ score[k] >= -(w * HalfShift) + w * d)

\* the baseline and its neighbour one thousandth above it
C9_Witness ==
    /\ Returned
    /\ pa = 20
    /\ ops[1] = Baseline /\ ops[2] = Baseline + 1
    /\ score[1] = 0 /\ score[2] > 0

\* C10: for every fixed PA >= 0 and all OPS1 <= OPS2,
\* weighted_color_value(PA, OPS1) <= weighted_color_value(PA, OPS2).
C10_MonotoneInOps ==
    (Returned /\ ops[1] <= ops[2]) => score[1] <= score[2]

\* a pair of calls that spans both clip points and the baseline
C10_Witness ==
    /\ Returned
    /\ pa = 3
    /\ ops[1] < Baseline - ClipDev /\ ops[2] > Baseline + ClipDev
    /\ score[1] < 0 /\ score[2] > 0

(***************************************************************************)
(* Properties of the ranked subsets                                        *)
(***************************************************************************)
Ranked == pc = "ranked"

Range(f) == {f[k] : k \in 1..Len(f)}

Positive == {i \in 1..Len(rows) : color_value[i] > 0}
Negative == {i \in 1..Len(rows) : color_value[i] < 0}

NoRepeat(f) == \A j, k \in 1..Len(f) : j # k => f[j] # f[k]

\* C5: the two subsets are disjoint; the favorable one holds exactly
\* min(50, number of rows with score > 0) rows, all of score > 0, in
\* non-increasing score order; the unfavorable one holds exactly
\* min(50, number of rows with score < 0) rows, all of score < 0, in
\* non-decreasing score order; no row left out of a subset has a strictly
\* more extreme score than a row in it.
C5_RankingPartition ==
    Ranked =>
        /\ Range(top_50_fav) \cap Range(top_50_unfav) = {}
        /\ Range(top_50_fav) \subseteq Positive /\ NoRepeat(top_50_fav)
        /\ Range(top_50_unfav) \subseteq Negative /\ NoRepeat(top_50_unfav)
        /\ Len(top_50_fav) = Min(TopN, Cardinality(Positive))
        /\ Len(top_50_unfav) = Min(TopN, Cardinality(Negative))
        /\ \A k \in 1..(Len(top_50_fav) - 1) :
              color_value[top_50_fav[k]] >= color_value[top_50_fav[k + 1]]
        /\ \A k \in 1..(Len(top_50_unfav) - 1) :
              color_value[top_50_unfav[k]] <= color_value[top_50_unfav[k + 1]]
        /\ \A x \in Positive \ Range(top_50_fav) : \A y \in Range(top_50_fav) :
              color_value[x] <= color_value[y]
        /\ \A x \in Negative \ Range(top_50_unfav) : \A y \in Range(top_50_unfav) :
              color_value[x] >= color_value[y]

\* more than 50 rows of positive score, two different scores among them, cut
\* to 50
C5_Witness ==
    /\ Ranked
    /\ Cardinality(Positive) > TopN
    /\ Len(top_50_fav) = TopN
    /\ color_value[top_50_fav[1]] > color_value[top_50_fav[TopN]]

\* C6: in both subsets rows of equal score keep their input order, and of
\* the rows whose score equals that of the last row kept, the ones kept are
\* the earliest of the input.
C6_StableTies ==
    Ranked =>
        \A f \in {top_50_fav, top_50_unfav} :
            /\ \A j, k \in 1..Len(f) :
                  (j < k /\ color_value[f[j]] = color_value[f[k]]) => f[j] < f[k]
            /\ \A x \in (Positive \cup Negative) \ Range(f) : \A y \in Range(f) :
                  color_value[x] = color_value[y] => y < x

(***************************************************************************)
(* The scorer at two PA values and one OPS value, and the weights          *)
(***************************************************************************)
MaxPAWide == 50

InitWeight ==
    /\ pc = "call"
    /\ pa \in 0..MaxPAWide
    /\ pa2 \in 0..MaxPAWide
    /\ ops \in {<<o>> : o \in OpsGrid}
    /\ score = <<>>
    /\ weight = <<>>
    /\ value = 0 /\ color = <<>>
    /\ df_pitching = <<>> /\ df_batter = <<>> /\ pitcher_index = 0
    /\ matchups = <<>> /\ csv = NoFile /\ err = "none"
    /\ rows = <<>> /\ color_value = <<>> /\ top_50_fav = <<>> /\ top_50_unfav = <<>>
    /\ ParseIdle /\ EnrichIdle /\ GameIdle

\* logarithmic_increase and weighted_color_value at pa and at pa2
CallWeights ==
    /\ pc = "call"
    /\ weight' = <<logarithmic_increase(pa), logarithmic_increase(pa2)>>
    /\ score' = <<weighted_color_value(pa, ops[1]), weighted_color_value(pa2, ops[1])>>
    /\ pc' = "returned"
    /\ UNCHANGED <<pa, pa2, ops, value, color>>
    /\ UNCHANGED buildVars /\ UNCHANGED rankVars
    /\ UNCHANGED parseVars /\ UNCHANGED enrichVars /\ UNCHANGED gameVars

NextWeight == CallWeights

SpecWeight == InitWeight /\ [][NextWeight]_vars

(***************************************************************************)
(* Properties of the scorer in PA, and of the weight                       *)
(***************************************************************************)
CapWeight == max_value * 10000

C12_WeightSaturation ==
    Returned =>
        /\ (pa >= max_value => weight[1] = CapWeight)
        /\ (pa < max_value => weight[1] = LogBranch[pa + 1] /\ weight[1] < CapWeight)
        /\ (pa = 0 => weight[1] = 0)
        /\ (pa < pa2 /\ pa2 <= max_value => weight[1] < weight[2])
        /\ (pa >= 1 /\ pa2 = pa + 1 /\ pa2 <= max_value =>
               weight[2] - weight[1] <= weight[1] - logarithmic_increase(pa - 1))

\* the weight at the cap and at 50
C12_Witness ==
    /\ Returned
    /\ pa = max_value /\ pa2 = 50
    /\ weight[1] = CapWeight /\ weight[2] = CapWeight

(***************************************************************************)
(* Both scripts' score formulas and determine_color                        *)
(***************************************************************************)
\* the score 100 that determine_color divides by; the same number is the
\* colour component 1.0, held in units of 10^-9
One == 1000000000

\* update.py: 2 * logarithmic_increase(row['PA']) * (row['OPS'] - 0.75)
ucv_OtherBaseline(PA, OPS) == 2 * logarithmic_increase(PA) * (OPS - (Baseline - 50))
update_color_value(PA, OPS) == 2 * logarithmic_increase(PA) * (OPS - Baseline)

\* value / 100 in units of 10^-9 is value in units of 10^-7
dc_NoClamp(v) ==
    IF v > 0
    THEN LET red_intensity == v IN <<One, One - red_intensity, One - red_intensity>>
    ELSE LET blue_intensity == Abs(v) IN <<One - blue_intensity, One - blue_intensity, One>>
determine_color(v) ==
    IF v > 0
    THEN LET norm_value == v
             red_intensity == Min(One, norm_value)
         IN  <<One, One - red_intensity, One - red_intensity>>
    ELSE LET norm_value == Abs(v)
             blue_intensity == Min(One, norm_value)
         IN  <<One - blue_intensity, One - blue_intensity, One>>

MaxOpsHalves == 8
ScoreStep == 125000000
MaxScoreSteps == 12

\* OPS values up to the largest an OPS column can hold
OpsGridWide == OpsGrid \cup {k * ClipDev : k \in 0..MaxOpsHalves}

\* arguments of determine_color: a coarse grid, and 0 and +-100 with their
\* neighbours
ScoreGrid ==
    {s * k * ScoreStep : s \in Signs, k \in 0..MaxScoreSteps}
        \cup {s * (c + e) : s \in Signs, c \in {0, One}, e \in {-1, 0, 1}}

InitColor ==
    /\ pc = "call"
    /\ pa \in 0..MaxPA
    /\ ops \in {<<o>> : o \in OpsGridWide}
    /\ value \in ScoreGrid
    /\ score = <<>>
    /\ color = <<>>
    /\ pa2 = 0 /\ weight = <<>>
    /\ df_pitching = <<>> /\ df_batter = <<>> /\ pitcher_index = 0
    /\ matchups = <<>> /\ csv = NoFile /\ err = "none"
    /\ rows = <<>> /\ color_value = <<>> /\ top_50_fav = <<>> /\ top_50_unfav = <<>>
    /\ ParseIdle /\ EnrichIdle /\ GameIdle

\* the color_value of run.py and the color_value of update.py for one row
ApplyFormulas ==
    /\ pc = "call"
    /\ score' = <<weighted_color_value(pa, ops[1]), update_color_value(pa, ops[1])>>
    /\ pc' = "valued"
    /\ UNCHANGED <<pa, ops, pa2, weight, value, color>>
    /\ UNCHANGED buildVars /\ UNCHANGED rankVars
    /\ UNCHANGED parseVars /\ UNCHANGED enrichVars /\ UNCHANGED gameVars

\* determine_color of the two color_values and of value
ApplyColor ==
    /\ pc = "valued"
    /\ color' = <<determine_color(score[1]), determine_color(score[2]),
                  determine_color(value)>>
    /\ pc' = "colored"
    /\ UNCHANGED <<pa, ops, score, pa2, weight, value>>
    /\ UNCHANGED buildVars /\ UNCHANGED rankVars
    /\ UNCHANGED parseVars /\ UNCHANGED enrichVars /\ UNCHANGED gameVars

NextColor == ApplyFormulas \/ ApplyColor

SpecColor == InitColor /\ [][NextColor]_vars

(***************************************************************************)
(* Properties of the saturated score, the colours and the two formulas     *)
(***************************************************************************)
Colored == pc = "colored"

\* the arguments determine_color was called with
ColorArgs == <<score[1], score[2], value>>

\* C13: for every PA >= 20 and OPS = 0.75 + d, the score is 20*d + 10 for
\* 0 < d <= 0.5 and 20 for d > 0.5; PA = 20, OPS = 1.0 gives 15.0, whose
\* colour is (1, 0.85, 0.85).
C13_SaturatedScore ==
    (Colored /\ pa >= max_value) =>
        LET d == ops[1] - Baseline
        IN  /\ (d > 0 /\ d <= ClipDev => score[1] = 20 * 10000 * d + 10 * 10000 * 1000)
            /\ (d > ClipDev => score[1] = 20 * 10000 * 1000)
            /\ (pa = max_value /\ ops[1] = 1000 =>
                   /\ score[1] = 15 * 10000 * 1000
                   /\ color[1] = <<One, 850000000, 850000000>>)

\* the example of the spec: PA 20, OPS 1.0
C13_Witness ==
    /\ Colored
    /\ pa = max_value /\ ops[1] = 1000
    /\ color[1] = <<One, 850000000, 850000000>>

\* C14: every colour has its three components in [0, 1]; for a score > 0
\* it is (1, 1-i, 1-i) with i = min(1, score/100), for a score <= 0 it is
\* (1-i, 1-i, 1) with i = min(1, |score|/100); score 0 gives white and
\* |score| >= 100 the fully saturated red or blue.
C14_ColorRange ==
    Colored =>
        \A k \in 1..3 :
            LET v == ColorArgs[k]
                c == color[k]
                i == Min(One, Abs(v))
            IN  /\ \A j \in 1..3 : 0 <= c[j] /\ c[j] <= One
                /\ (v > 0 => c = <<One, One - i, One - i>>)
                /\ (v <= 0 => c = <<One - i, One - i, One>>)
                /\ (v = 0 => c = <<One, One, One>>)
                /\ (v >= One => c = <<One, 0, 0>>)
                /\ (v <= -One => c = <<0, 0, One>>)

\* a score above 100 from update.py's formula and an argument below -100
C14_Witness ==
    /\ Colored
    /\ score[2] > One /\ color[2] = <<One, 0, 0>>
    /\ value < -One /\ color[3] = <<0, 0, One>>

\* C19: for all PA >= 0 and OPS >= 0, update.py's
\* 2 * weight(PA) * (OPS - 0.75) is positive, zero or negative exactly when
\* run.py's weighted_color_value(PA, OPS) is.
C19_SameSign ==
    (pc \in {"valued", "colored"}) => Sign(score[1]) = Sign(score[2])

\* a row just below the baseline with a positive weight, where the two
\* formulas give different negative scores
C19_Witness ==
    /\ pc = "valued"
    /\ pa = 1 /\ ops[1] = Baseline - 1
    /\ score[1] < 0 /\ score[2] < 0 /\ score[1] # score[2]

(***************************************************************************)
(* The parse loop over the lineup list items                               *)
(***************************************************************************)
MaxLists == 3
MaxLi == 4

\* the lists (ul) of the lineup boxes in page order: the visiting list of a
\* game, then its home list; list b belongs to team ListTeams[b]
ListTeams == <<"NYY", "BOS", "TOR", "TBR", "BAL", "DET">>
ListClass(b) == IF b % 2 = 1 THEN "is-visit" ELSE "is-home"

\* li classes: lineup__player-highlight, lineup__player, anything else
LiKinds == {"pitcher", "batter", "other"}

\* soup.select('.lineup__box ul li'): every li with the list it sits in;
\* a list may hold no li at all
Pages ==
    {p \in SeqsUpTo([list : 1..MaxLists, kind : LiKinds], MaxLi) :
        \A k \in 1..(Len(p) - 1) : p[k].list <= p[k + 1].list}

InitParse ==
    /\ pc = "parse"
    /\ items \in Pages
    /\ item_index = 0
    /\ team_type = ""
    /\ order_count = Unbound
    /\ df_pitching = <<>>
    /\ df_batter = <<>>
    /\ pitcher_index = 0 /\ matchups = <<>> /\ csv = NoFile /\ err = "none"
    /\ rows = <<>> /\ color_value = <<>> /\ top_50_fav = <<>> /\ top_50_unfav = <<>>
    /\ pa = 0 /\ ops = <<>> /\ score = <<>>
    /\ FnIdle /\ EnrichIdle /\ GameIdle

\* the li the loop is at
CurrentLi == items[item_index + 1]

\* if team_type != e.parent.get('class')[-1]
TeamTypeChanges == team_type # ListClass(CurrentLi.list)

\* order_count after the reset at the top of the loop body
OrderAfterReset == IF TeamTypeChanges THEN <<1>> ELSE order_count

\* e is a lineup__player-highlight
ParsePitcher ==
    /\ pc = "parse"
    /\ item_index < Len(items)
    /\ CurrentLi.kind = "pitcher"
    /\ team_type' = ListClass(CurrentLi.list)
    /\ order_count' = OrderAfterReset
    /\ df_pitching' = Append(df_pitching, [team |-> ListTeams[CurrentLi.list]])
    /\ item_index' = item_index + 1
    /\ UNCHANGED <<pc, items, df_batter, pitcher_index, matchups, csv, err>>
    /\ UNCHANGED rankVars /\ UNCHANGED scoreVars
    /\ UNCHANGED fnVars /\ UNCHANGED enrichVars /\ UNCHANGED gameVars

\* e is a lineup__player: it takes order_count, which must be bound
ParseBatter ==
    /\ pc = "parse"
    /\ item_index < Len(items)
    /\ CurrentLi.kind = "batter"
    /\ OrderAfterReset # Unbound
    /\ team_type' = ListClass(CurrentLi.list)
    /\ df_batter' = Append(df_batter,
            [id            |-> Len(df_batter) + 1,
             team          |-> ListTeams[CurrentLi.list],
             batting_order |-> OrderAfterReset[1],
             li            |-> item_index + 1])
    /\ order_count' = <<OrderAfterReset[1] + 1>>
    /\ item_index' = item_index + 1
    /\ UNCHANGED <<pc, items, df_pitching, pitcher_index, matchups, csv, err>>
    /\ UNCHANGED rankVars /\ UNCHANGED scoreVars
    /\ UNCHANGED fnVars /\ UNCHANGED enrichVars /\ UNCHANGED gameVars

\* any other li: only the reset at the top of the body
ParseOther ==
    /\ pc = "parse"
    /\ item_index < Len(items)
    /\ CurrentLi.kind = "other"
    /\ team_type' = ListClass(CurrentLi.list)
    /\ order_count' = OrderAfterReset
    /\ item_index' = item_index + 1
    /\ UNCHANGED <<pc, items, df_pitching, df_batter, pitcher_index, matchups, csv, err>>
    /\ UNCHANGED rankVars /\ UNCHANGED scoreVars
    /\ UNCHANGED fnVars /\ UNCHANGED enrichVars /\ UNCHANGED gameVars

\* end of the loop: df_pitching, df_batter = pd.DataFrame(...)
ParseDone ==
    /\ pc = "parse"
    /\ item_index = Len(items)
    /\ pc' = "build"
    /\ UNCHANGED <<items, item_index, team_type, order_count>>
    /\ UNCHANGED <<df_pitching, df_batter, pitcher_index, matchups, csv, err>>
    /\ UNCHANGED rankVars /\ UNCHANGED scoreVars
    /\ UNCHANGED fnVars /\ UNCHANGED enrichVars /\ UNCHANGED gameVars

NextParse == ParsePitcher \/ ParseBatter \/ ParseOther \/ ParseDone

SpecParse == InitParse /\ [][NextParse]_vars

(***************************************************************************)
(* Properties of the parse loop                                            *)
(***************************************************************************)
\* the batters of the same list that precede li number p
EarlierBattersOfList(p) ==
    {q \in 1..(p - 1) : items[q].kind = "batter" /\ items[q].list = items[p].list}

\* C16: at every point of the parse each recorded batter carries 1 plus the
\* number of batters of its own team block before it (the order restarts at
\* 1 at every change of team and grows by 1 per batter, pitchers take no
\* number), and the counter is bound once the first li has been processed.
C16_BattingOrder ==
    /\ \A r \in 1..Len(df_batter) :
          df_batter[r].batting_order = 1 + Cardinality(EarlierBattersOfList(df_batter[r].li))
    /\ (item_index > 0 => order_count # Unbound)
    /\ (pc = "parse" /\ item_index < Len(items) =>
            ENABLED (ParsePitcher \/ ParseBatter \/ ParseOther))

(***************************************************************************)
(* The enrichment step: scrape_player_stats mapped over the matchup rows   *)
(***************************************************************************)
MaxRecs == 2
MaxWorkers == 2

BuilderFields ==
    {"date", "game_time", "pitcher_name", "pitcher_team", "pitcher_throws",
     "batter_name", "batter_team", "batter_position", "batting_order", "batter_bats"}
StatNames == {"PA", "AB", "H", "HR", "SO", "AVG", "OBP", "SLG", "OPS"}

\* row i of df_final as the builder wrote it; players are named by number
MatchupRow(i) ==
    [date |-> "today", game_time |-> "7:05 PM ET",
     pitcher_name |-> 1, pitcher_team |-> "BOS", pitcher_throws |-> "R",
     batter_name |-> i, batter_team |-> "NYY", batter_position |-> "SS",
     batting_order |-> i, batter_bats |-> "L"]

\* the text of a td: one that float() parses to val, or one that it rejects
Num(v) == [kind |-> "num", val |-> v]
Text == [kind |-> "text", val |-> 0]
Absent == [kind |-> "absent", val |-> 0]

\* dict(zip(headers, values)): the headers present, each with its td text
Table(paCell, opsCell, otherCell) ==
    LET cell(s) == IF s = "PA" THEN paCell
                   ELSE IF s = "OPS" THEN opsCell ELSE otherCell
    IN  [s \in {h \in StatNames : cell(h) # Absent} |-> cell(s)]
EmptyStats == [s \in {} |-> Text]

\* the tables considered, as <<PA cell, OPS cell, cell of the other seven>>
TableShapes ==
    {<<Num(5), Num(1000), Num(1)>>, <<Num(20), Num(500), Num(1)>>,
     <<Absent, Num(1000), Num(1)>>, <<Text, Num(500), Num(1)>>,
     <<Num(5), Absent, Absent>>, <<Num(20), Text, Text>>,
     <<Absent, Absent, Absent>>}

\* what one fetch can come to: the request or the parse raises, the page has
\* no table, or it has a table
FetchOutcomes ==
    {[kind |-> "raise", stats |-> EmptyStats], [kind |-> "no_table", stats |-> EmptyStats]}
    \cup {[kind |-> "table", stats |-> Table(c[1], c[2], c[3])] : c \in TableShapes}
NotFetched == [kind |-> "none", stats |-> EmptyStats]

\* stats after the first try block
StatsOf(outcome) == IF outcome.kind = "table" THEN outcome.stats ELSE EmptyStats

\* try: row[stat] = float(stats.get(stat, 0)) except: row[stat] = 0.0
StatValueDefaultOne(stats, stat) ==
    IF stat \notin DOMAIN stats THEN 1
    ELSE IF stats[stat].kind = "num" THEN stats[stat].val ELSE 0
StatValue(stats, stat) ==
    IF stat \notin DOMAIN stats THEN 0
    ELSE IF stats[stat].kind = "num" THEN stats[stat].val ELSE 0

scrape_player_stats(row, outcome) ==
    [f \in (DOMAIN row) \cup StatNames |->
        IF f \in StatNames THEN StatValue(StatsOf(outcome), f) ELSE row[f]]

\* list(executor.map(...)): the results in the order of the inputs
ResultsAsCompleted == [k \in 1..Len(finished) |-> task[finished[k]].row]
ResultsInOrder == [i \in 1..Len(task) |-> task[i].row]

InitEnrich ==
    /\ pc = "built"
    /\ \E n \in 1..MaxRecs : matchups = [i \in 1..n |-> MatchupRow(i)]
    /\ csv = <<matchups>>
    /\ workers \in 1..MaxWorkers
    /\ task = [i \in 1..Len(matchups) |->
                  [state |-> "pending", worker |-> 0, row |-> matchups[i], fetched |-> NotFetched]]
    /\ finished = <<>>
    /\ results = <<>>
    /\ df_pitching = <<>> /\ df_batter = <<>> /\ pitcher_index = 0 /\ err = "none"
    /\ rows = <<>> /\ color_value = <<>> /\ top_50_fav = <<>> /\ top_50_unfav = <<>>
    /\ pa = 0 /\ ops = <<>> /\ score = <<>>
    /\ FnIdle /\ ParseIdle /\ GameIdle

Pending == {i \in 1..Len(task) : task[i].state = "pending"}
Running == {i \in 1..Len(task) : task[i].state = "running"}

\* an idle worker of the pool takes the next row of the queue
StartFetch ==
    /\ pc = "built"
    /\ Pending # {}
    /\ \E w \in 1..workers :
          /\ \A i \in Running : task[i].worker # w
          /\ LET i == CHOOSE k \in Pending : \A j \in Pending : k <= j
             IN  task' = [task EXCEPT ![i].state = "running", ![i].worker = w]
    /\ UNCHANGED <<workers, finished, results>>
    /\ UNCHANGED buildVars /\ UNCHANGED rankVars /\ UNCHANGED scoreVars
    /\ UNCHANGED <<pc>> /\ UNCHANGED fnVars /\ UNCHANGED parseVars /\ UNCHANGED gameVars

\* a running scrape_player_stats returns
FinishFetch ==
    /\ pc = "built"
    /\ \E i \in Running, outcome \in FetchOutcomes :
          /\ task' = [task EXCEPT ![i].state = "done",
                                  ![i].row = scrape_player_stats(task[i].row, outcome),
                                  ![i].fetched = outcome]
          /\ finished' = Append(finished, i)
    /\ UNCHANGED <<workers, results>>
    /\ UNCHANGED buildVars /\ UNCHANGED rankVars /\ UNCHANGED scoreVars
    /\ UNCHANGED <<pc>> /\ UNCHANGED fnVars /\ UNCHANGED parseVars /\ UNCHANGED gameVars

\* results = list(executor.map(...)); df_final = pd.DataFrame(results)
Collect ==
    /\ pc = "built"
    /\ \A i \in 1..Len(task) : task[i].state = "done"
    /\ results' = ResultsInOrder
    /\ rows' = results'
    /\ pc' = "enriched"
    /\ UNCHANGED <<workers, task, finished>>
    /\ UNCHANGED <<color_value, top_50_fav, top_50_unfav>>
    /\ UNCHANGED buildVars /\ UNCHANGED scoreVars
    /\ UNCHANGED fnVars /\ UNCHANGED parseVars /\ UNCHANGED gameVars

NextEnrich == StartFetch \/ FinishFetch \/ Collect \/ ScoreRows \/ RankRows

SpecEnrich == InitEnrich /\ [][NextEnrich]_vars

(***************************************************************************)
(* Properties of the enrichment step                                       *)
(***************************************************************************)
Done == {i \in 1..Len(task) : task[i].state = "done"}
FailedEntirely(i) == task[i].fetched.kind \in {"raise", "no_table"}

\* the stat has no parseable value in what the fetch of row i brought back
Affected(i, stat) ==
    \/ FailedEntirely(i)
    \/ stat \notin DOMAIN task[i].fetched.stats
    \/ task[i].fetched.stats[stat].kind = "text"

\* C15: whatever a fetch comes to, scrape_player_stats returns the row and
\* no error surfaces; every stat the fetch gave no parseable value for is
\* 0.0 and every other stat is the parsed value; a row whose fetch failed
\* entirely has all nine stats 0.0, is scored 0 by both scoring formulas,
\* and is in neither the favorable nor the unfavorable subset.
C15_FetchFailureIsZero ==
    /\ err = "none"
    /\ \A i \in Running : ENABLED FinishFetch
    /\ \A i \in Done :
          /\ \A stat \in StatNames :
                task[i].row[stat] =
                    IF Affected(i, stat) THEN 0 ELSE task[i].fetched.stats[stat].val
          /\ FailedEntirely(i) =>
                /\ \A stat \in StatNames : task[i].row[stat] = 0
                /\ update_color_value(task[i].row.PA, task[i].row.OPS) = 0
                /\ pc \in {"scored", "ranked"} => color_value[i] = 0
                /\ pc = "ranked" => i \notin Range(top_50_fav) \cup Range(top_50_unfav)

C15_Witness ==
    /\ pc = "ranked"
    /\ \E i, j \in Done :
          /\ task[i].fetched.kind = "raise"
          /\ task[j].fetched.kind = "table"
          /\ Affected(j, "OPS") /\ ~Affected(j, "PA")
          /\ j \in Range(top_50_unfav)

\* the builder's part of a row
BuilderPart(row) == [f \in BuilderFields |-> row[f]]

EnrichedInOrder ==
    pc \in {"enriched", "scored", "ranked"} =>
        /\ Len(results) = Len(matchups)
        /\ rows = results
        /\ \A i \in 1..Len(results) :
              /\ DOMAIN results[i] = BuilderFields \cup StatNames
              /\ BuilderPart(results[i]) = matchups[i]

\* a step changes the row of at most one task, that task is running, it
\* keeps its worker, and the rows the builder wrote are not written
OwnRowOnly ==
    /\ matchups' = matchups
    /\ \A i \in 1..Len(task) :
          /\ task[i].worker # 0 => task'[i].worker = task[i].worker
          /\ task'[i].row # task[i].row =>
                /\ task[i].state = "running"
                /\ \A j \in 1..Len(task) : j # i => task'[j] = task[j]
    /\ \A i, j \in Running : i # j => task[i].worker # task[j].worker

\* C17: for every pool size and every order in which the fetches start and
\* finish, the enrichment returns one row per matchup row, in the builder's
\* order, each with its ten builder fields unchanged and the nine stat
\* fields added; a row is written only by the one worker that runs it.
C17_OrderedIsolatedEnrichment == []EnrichedInOrder /\ [][OwnRowOnly]_vars

\* two workers ran fetches that finished in the opposite order
C17_Witness ==
    /\ pc = "enriched"
    /\ Len(finished) > 1
    /\ finished[1] > finished[2]
    /\ task[finished[1]].worker # task[finished[2]].worker
    /\ results[1] # results[2]

(***************************************************************************)
(* The game charts: one chart per entry of game_pairs                      *)
(***************************************************************************)
MaxGames == 2

\* team names in alphabetical order; a slate of k games uses 2k of the
\* first 2 * MaxGames names
AlphaTeams == <<"ARI", "ATL", "BAL", "BOS", "CHC", "CIN", "CLE", "COL">>
SlateTeams == {AlphaTeams[i] : i \in 1..(2 * MaxGames)}
TeamRank(t) == CHOOSE i \in 1..Len(AlphaTeams) : AlphaTeams[i] = t

\* the starting pitchers of k games in page order, no team playing twice
Slates ==
    {s \in SeqsUpTo(SlateTeams, 2 * MaxGames) :
        /\ Len(s) > 0
        /\ Len(s) % 2 = 0
        /\ \A i, j \in 1..Len(s) : i # j => s[i] # s[j]}

InitGames ==
    /\ pc = "build"
    /\ \E s \in Slates :
          /\ df_pitching = [i \in 1..Len(s) |-> [team |-> s[i]]]
          /\ df_batter = [i \in 1..Len(s) |-> [id |-> i, team |-> s[i]]]
    /\ pitcher_index = 0
    /\ matchups = <<>>
    /\ csv = NoFile
    /\ err = "none"
    /\ rows = <<>> /\ color_value = <<>> /\ top_50_fav = <<>> /\ top_50_unfav = <<>>
    /\ pa = 0 /\ ops = <<>> /\ score = <<>>
    /\ ExtIdle

\* the keys of df_final.groupby(['pitcher_team', 'batter_team'])
GroupKeys == {<<matchups[i].pitcher_team, matchups[i].batter_team>> : i \in 1..Len(matchups)}

\* key a sorts before key b
KeyBefore(a, b) ==
    \/ TeamRank(a[1]) < TeamRank(b[1])
    \/ (a[1] = b[1] /\ TeamRank(a[2]) < TeamRank(b[2]))

\* unique_games: groupby sorts the keys
unique_games ==
    [n \in 1..Cardinality(GroupKeys) |->
        CHOOSE a \in GroupKeys : Cardinality({b \in GroupKeys : KeyBefore(b, a)}) = n - 1]

\* game_pairs = [unique_games.iloc[i] for i in range(0, len(unique_games), 2)]
GamePairs ==
    /\ pc = "built"
    /\ game_pairs' = [n \in 1..((Len(unique_games) + 1) \div 2) |-> unique_games[2 * n - 1]]
    /\ pc' = "charted"
    /\ UNCHANGED buildVars /\ UNCHANGED rankVars /\ UNCHANGED scoreVars
    /\ UNCHANGED fnVars /\ UNCHANGED parseVars /\ UNCHANGED enrichVars

NextGames == BuildPair \/ WriteCsv \/ GamePairs

SpecGames == InitGames /\ [][NextGames]_vars

(***************************************************************************)
(* Properties of the game charts                                           *)
(***************************************************************************)
\* the two teams of game g of the slate
GameTeams(g) == {df_pitching[2 * g - 1].team, df_pitching[2 * g].team}
ChartsOfGame(g) ==
    {n \in 1..Len(game_pairs) : {game_pairs[n][1], game_pairs[n][2]} = GameTeams(g)}

\* C18: once the charts are drawn, game_pairs has one pair per game of the
\* slate and every game has exactly one pair made of its two teams: no game
\* is charted twice and none is skipped.
C18_OneChartPerGame ==
    pc = "charted" =>
        /\ Len(game_pairs) = Len(df_pitching) \div 2
        /\ \A g \in 1..(Len(df_pitching) \div 2) : Cardinality(ChartsOfGame(g)) = 1

====
